---- MODULE Spec2Model ----
(***************************************************************************)
(* Barangay Case Analyzer (src/script.js): the intake form, its            *)
(* validation, the keyword classifier, the static legal knowledge base,    *)
(* the mediation-strategy and question generators and the generate-report  *)
(* handler.                                                                *)
(*                                                                         *)
(* Text typed by the user (summary, location, date/time) is a sequence of  *)
(* one-character strings, so that trimming, lower-casing, length and       *)
(* substring search are computed as the JavaScript computes them.  Fixed   *)
(* template text is kept as TLA+ strings; the non-ASCII characters of the  *)
(* source literals are written in ASCII (U+2011 and U+2013 "-", the peso   *)
(* sign "PHP", curly quotes "'", the citation brackets "[", "+", "]").     *)
(* JavaScript arrays are 0-based and TLA+ sequences 1-based: openEnded[0]  *)
(* of the source is openEnded[1] here.                                     *)
(***************************************************************************)
EXTENDS Integers, Sequences, FiniteSets, TLC

VARIABLES
    summaryVal,      \* #incidentSummary .value
    locationVal,     \* #incidentLocation .value
    dateVal,         \* #incidentDateTime .value
    invalid,         \* the is-invalid class of the three fields
    hostZone,        \* the browser's time zone, hours east of UTC
    pc,              \* position of the generate-report handler
    formData,        \* generateReport local: gatherData()
    classification,  \* generateReport local
    analysis,        \* generateReport local
    mediation,       \* generateReport local
    questions,       \* generateReport local
    classifyCalls,   \* classifyCase calls made by the current request
    threw,           \* an error escaped the handler
    reportContent,   \* what #reportContent displays: <<>> or <<reportData>>
    reportVisible,   \* #reportSection does not carry d-none
    generatedSinceClear, \* history: a report was rendered since the last clear
    caseIdVal,       \* #caseId .value
    dateReceivedVal, \* #dateReceived .value
    complainantVal,  \* the four complainant inputs
    respondentEls,   \* the .respondent elements of #respondentContainer, in order
    now,             \* the clock: days since the page was loaded
    fnCall,          \* direct call of a pure function: its arguments
    fnResult,        \* and what it returned
    LEGAL_SEARCH,    \* window.LEGAL_SEARCH, set by config.js
    queryVal,        \* #legal-query .value
    resultsText,     \* what #legal-results displays
    searches,        \* the runLegalSearchUI calls made, in the order started
    requests,        \* the requests handed to fetch, in the order issued
    searchThrew      \* an error escaped a runLegalSearchUI call

vars == <<summaryVal, locationVal, dateVal, invalid, hostZone, pc, formData,
          classification, analysis, mediation, questions, classifyCalls, threw,
          reportContent, reportVisible, generatedSinceClear, caseIdVal,
          dateReceivedVal, complainantVal, respondentEls, now, fnCall, fnResult,
          LEGAL_SEARCH, queryVal, resultsText, searches, requests, searchThrew>>

formVars == <<summaryVal, locationVal, dateVal>>
localVars == <<formData, classification, analysis, mediation, questions, classifyCalls>>
fnVars == <<fnCall, fnResult>>
partyVars == <<caseIdVal, dateReceivedVal, complainantVal, respondentEls>>
searchVars == <<LEGAL_SEARCH, queryVal, resultsText, searches, requests, searchThrew>>
pageVars == <<formVars, invalid, hostZone, pc, localVars, threw, reportContent,
              reportVisible, generatedSinceClear, partyVars, now, fnVars>>

(***************************************************************************)
(* JavaScript values and strings                                           *)
(***************************************************************************)
\* the value of an unset local, a missing argument or a missing property
Undefined == [t |-> "undefined", s |-> <<>>]
\* a string value, as passed to a function that may also get undefined
Str(chars) == [t |-> "string", s |-> chars]

UpperChars == <<"A", "B", "C", "D", "E", "F", "G", "H", "I", "J", "K", "L", "M",
                "N", "O", "P", "Q", "R", "S", "T", "U", "V", "W", "X", "Y", "Z">>
LowerChars == <<"a", "b", "c", "d", "e", "f", "g", "h", "i", "j", "k", "l", "m",
                "n", "o", "p", "q", "r", "s", "t", "u", "v", "w", "x", "y", "z">>
WhiteSpace == {" ", "\t", "\n"}

LowerChar(c) ==
    IF \E i \in 1..Len(UpperChars) : UpperChars[i] = c
    THEN LowerChars[CHOOSE i \in 1..Len(UpperChars) : UpperChars[i] = c]
    ELSE c

\* String.prototype.toLowerCase
toLowerCase(s) == [i \in 1..Len(s) |-> LowerChar(s[i])]

\* String.prototype.trim
trim(s) ==
    LET keep == {i \in 1..Len(s) : s[i] \notin WhiteSpace}
    IN  IF keep = {} THEN <<>>
        ELSE LET lo == CHOOSE i \in keep : \A j \in keep : i <= j
                 hi == CHOOSE i \in keep : \A j \in keep : j <= i
             IN  SubSeq(s, lo, hi)

\* s contains k as a substring (an alternative of a RegExp without anchors)
Contains(s, k) ==
    \E i \in 1..(Len(s) - Len(k) + 1) : SubSeq(s, i, i + Len(k) - 1) = k

\* RegExp.prototype.test for an alternation of literal keywords
TestAny(keywords, s) == \E k \in keywords : Contains(s, k)

(***************************************************************************)
(* classifyCase                                                            *)
(***************************************************************************)
theftKeywords ==
    { <<"s", "t", "e", "a", "l">>,
      <<"t", "h", "e", "f", "t">>,
      <<"s", "t", "o", "l", "e">>,
      <<"r", "o", "b">>,
      <<"r", "o", "b", "b", "e", "d">>,
      <<"t", "a", "k", "e">>,
      <<"t", "o", "o", "k">>,
      <<"t", "a", "k", "e", "n">>,
      <<"t", "a", "k", "i", "n">>,
      <<"m", "i", "s", "s", "i", "n", "g">> }
threatKeywords ==
    { <<"t", "h", "r", "e", "a", "t">>,
      <<"k", "i", "l", "l">>,
      <<"h", "u", "r", "t">>,
      <<"i", "n", "t", "i", "m", "i", "d", "a", "t">> }
defamationKeywords ==
    { <<"d", "e", "f", "a", "m">>,
      <<"s", "l", "a", "n", "d", "e", "r">>,
      <<"i", "n", "s", "u", "l", "t">>,
      <<"l", "i", "b", "e", "l">>,
      <<"o", "r", "a", "l">> }
injuryKeywords ==
    { <<"i", "n", "j", "u", "r">>,
      <<"h", "i", "t">>,
      <<"p", "u", "n", "c", "h">>,
      <<"p", "h", "y", "s", "i", "c", "a", "l">>,
      <<"a", "t", "t", "a", "c", "k">> }

\* mutant: the injury rule is tested before the theft rule
classifyCase_injuryFirst(summary) ==
    LET text == toLowerCase(summary)
    IN  IF TestAny(injuryKeywords, text) THEN "injury"
        ELSE IF TestAny(theftKeywords, text) THEN "theft"
        ELSE IF TestAny(threatKeywords, text) THEN "threat"
        ELSE IF TestAny(defamationKeywords, text) THEN "defamation"
        ELSE "general"

\* mutant: a summary without keywords is classified "General", a key that
\* LEGAL_DATA does not have
classifyCase_badDefault(summary) ==
    LET text == toLowerCase(summary)
    IN  IF TestAny(theftKeywords, text) THEN "theft"
        ELSE IF TestAny(threatKeywords, text) THEN "threat"
        ELSE IF TestAny(defamationKeywords, text) THEN "defamation"
        ELSE IF TestAny(injuryKeywords, text) THEN "injury"
        ELSE "General"

classifyCase(summary) ==
    LET text == toLowerCase(summary)
    IN  IF TestAny(theftKeywords, text) THEN "theft"
        ELSE IF TestAny(threatKeywords, text) THEN "threat"
        ELSE IF TestAny(defamationKeywords, text) THEN "defamation"
        ELSE IF TestAny(injuryKeywords, text) THEN "injury"
        ELSE "general"

(***************************************************************************)
(* validateForm                                                            *)
(***************************************************************************)
MinSummaryLen == 30

\* the three checks: TRUE when the field fails its check
summaryFails(v) == v = <<>> \/ Len(trim(v)) < MinSummaryLen
locationFails(v) == v = <<>> \/ Len(trim(v)) = 0
dateFails(v) == v = <<>>

\* a variant that stops checking at the first field that fails
validateMarks_firstFailureOnly(sv, lv, dv) ==
    [ summary |-> summaryFails(sv),
      location |-> IF summaryFails(sv) THEN invalid.location ELSE locationFails(lv),
      dateTime |-> IF summaryFails(sv) \/ locationFails(lv) THEN invalid.dateTime
                   ELSE dateFails(dv) ]

\* the is-invalid marks validateForm leaves on the three fields
validateMarks(sv, lv, dv) ==
    [summary |-> summaryFails(sv), location |-> locationFails(lv), dateTime |-> dateFails(dv)]

\* the value validateForm returns
validateForm(sv, lv, dv) ==
    ~summaryFails(sv) /\ ~locationFails(lv) /\ ~dateFails(dv)

(***************************************************************************)
(* LEGAL_DATA: the knowledge base, one record per category                 *)
(***************************************************************************)
LEGAL_theft ==
    [ nature |-> "Theft / Qualified Theft",
      description |->
        "Theft involves taking personal property belonging to another without their consent and with intent to gain. Qualified theft occurs when the offender and owner have a relationship of trust (e.g., employee and employer).",
      violations |->
        << [ title |-> "Theft",
             basis |-> "Revised Penal Code Art. 308",
             text |-> "Article 308 defines theft as taking personal property belonging to another without violence or intimidation, including the misappropriation of found property and the concealment of lost goods. The offender must intend to gain from the property[302115606301760+L4077-L4134].",
             penalty |-> "Article 309 provides penalties depending on the value of the property: if the value does not exceed PHP5,000, arresto mayor or fine applies; between PHP5,000 and PHP12,000, arresto mayor to prision correccional; PHP12,000 to PHP50,000, prision correccional; above PHP50,000, prision mayor[302115606301760+L4077-L4134]." ],
           [ title |-> "City ordinance on employment of seniors and PWDs",
             basis |-> "San Pedro City Ordinance No. 2024-13",
             text |-> "This ordinance mandates private businesses to reserve at least one job out of ten for senior citizens and persons with disabilities (PWDs) and requires city offices to allocate at least 1% of positions to them[50922767766975+L25-L57].",
             penalty |-> "Non-compliance or misrepresentation results in a fine of PHP5,000 or imprisonment up to one year[50922767766975+L25-L57]." ] >>,
      jurisprudence |->
        << [ title |-> "Sonia Balagtas v. People (G.R. No. 257483, 30 Oct 2024)",
             summary |-> "The Supreme Court held that, to convict for qualified theft, the prosecution must prove a relationship of confidence between the accused and the offended party. In this case, a payroll manager who padded salaries and pocketed the difference was convicted of qualified theft[267612455535893+L72-L76][267612455535893+L87-L96]." ] >>,
      counters |->
        << [ title |-> "Malicious mischief",
             basis |-> "Revised Penal Code Art. 327",
             text |-> "If property was merely damaged without intent to gain, the proper charge may be malicious mischief rather than theft.",
             penalty |-> "Penalties vary depending on the amount of damage (fine or imprisonment)." ],
           [ title |-> "False accusation / Oral defamation",
             basis |-> "Revised Penal Code Art. 358",
             text |-> "A respondent may file a counter-charge for oral defamation if the complainant made false or malicious allegations.",
             penalty |-> "Serious oral defamation is punishable by arresto mayor to prision correccional; slight defamation carries arresto menor or a fine[302115606301760+L4784-L4793]." ] >> ]

LEGAL_threat ==
    [ nature |-> "Grave Threats / Threatening Behaviour",
      description |->
        "Threats involve threatening another with the infliction of any wrong amounting to a crime. Grave threats are punished based on conditions set and whether the threat is fulfilled.",
      violations |->
        << [ title |-> "Grave threats",
             basis |-> "Revised Penal Code Art. 282",
             text |-> "Article 282 punishes any person who threatens another with the infliction of a wrong amounting to a crime. The penalty varies depending on whether a demand or condition is imposed and whether the threat is communicated in writing or through a middleman[467119748815266+L161-L178].",
             penalty |-> "If the threat includes a demand and the offender attains the objective, the penalty is one degree lower than that prescribed for the threatened crime. If the objective is not attained, two degrees lower; if there is no demand or condition, the penalty is arresto mayor and a fine up to PHP100,000[467119748815266+L161-L178]." ] >>,
      jurisprudence |->
        << [ title |-> "Paera v. People (G.R. No. 181626)",
             summary |-> "The Court upheld the conviction of a barangay chairman who brandished a bolo and threatened his neighbours by shouting 'I will kill you,' ruling that his actions constituted grave threats[701912971857914+L75-L110]." ] >>,
      counters |->
        << [ title |-> "Provocation and self-defense",
             basis |-> "General defence",
             text |-> "Respondents may argue that any threatening statement was provoked or uttered in self-defense. The presence of mitigating circumstances can reduce criminal liability.",
             penalty |-> "Penalties may be lowered if mitigating circumstances are established." ],
           [ title |-> "False accusation / Oral defamation",
             basis |-> "Revised Penal Code Art. 358",
             text |-> "The respondent may counter-charge for libel or oral defamation if the complainant exaggerated or fabricated the alleged threats.",
             penalty |-> "Serious oral defamation is punishable by arresto mayor to prision correccional; slight defamation by arresto menor or fine[302115606301760+L4784-L4793]." ] >> ]

LEGAL_defamation ==
    [ nature |-> "Oral Defamation (Slander)",
      description |->
        "Oral defamation or slander consists in speaking ill of another, imputing a vice, defect or act which tends to cause dishonour, discredit or contempt.",
      violations |->
        << [ title |-> "Oral defamation",
             basis |-> "Revised Penal Code Art. 358",
             text |-> "Article 358 punishes oral defamation: serious defamation is committed when imputations are serious, while slight defamation covers minor insults. The provision prescribes the applicable penalties[302115606301760+L4784-L4793].",
             penalty |-> "Serious oral defamation: arresto mayor to prision correccional; slight defamation: arresto menor or a fine not exceeding PHP200[302115606301760+L4784-L4793]." ] >>,
      jurisprudence |->
        << [ title |-> "Balite v. People (G.R. L-21475, 30 Sept 1966)",
             summary |-> "The Supreme Court convicted a union president of grave oral defamation after he publicly accused another of misappropriating strike funds; the Court imposed arresto mayor and prision correccional[363720073413201+L79-L87][363720073413201+L117-L124]." ] >>,
      counters |->
        << [ title |-> "Truth and privileged communications",
             basis |-> "Revised Penal Code Arts. 354 & 361",
             text |-> "Statements made in the performance of a lawful duty or in privileged occasions (e.g., judicial proceedings) are not actionable if true and made in good faith.",
             penalty |-> "No criminal liability if privilege is established." ],
           [ title |-> "Counter-libel against complainant",
             basis |-> "Revised Penal Code Art. 358",
             text |-> "If the complainant publicly utters false accusations or defamatory statements during the case, the respondent may file a libel or defamation case.",
             penalty |-> "Serious oral defamation: arresto mayor to prision correccional; slight defamation: arresto menor or fine[302115606301760+L4784-L4793]." ] >> ]

LEGAL_injury ==
    [ nature |-> "Physical Injuries",
      description |->
        "Physical injuries offences punish acts inflicting bodily harm. Slight physical injuries cover cases where incapacity or medical attendance does not exceed nine days.",
      violations |->
        << [ title |-> "Slight physical injuries",
             basis |-> "Revised Penal Code Art. 266",
             text |-> "Article 266 penalises slight physical injuries and maltreatment. When the offended party is incapacitated for labour or needs medical attendance from one to nine days, the penalty is arresto menor; if the injuries do not prevent work, a fine not exceeding PHP500 is imposed[302115606301760+L3534-L3546].",
             penalty |-> "Arresto menor (1-30 days) or fine up to PHP500[302115606301760+L3534-L3546]." ] >>,
      jurisprudence |->
        <<>>,
      counters |->
        << [ title |-> "Self-defense",
             basis |-> "General defence",
             text |-> "Respondent may assert that any injuries were inflicted in lawful self-defense or defense of a relative, which can justify the act.",
             penalty |-> "No criminal liability if all elements of self-defense are present." ],
           [ title |-> "Mutual affray",
             basis |-> "Revised Penal Code Art. 251",
             text |-> "If both parties voluntarily engaged in a fight, each may be liable only for lesser offences depending on the injuries inflicted.",
             penalty |-> "Penalties vary by resulting injuries and participation." ] >> ]

LEGAL_general ==
    [ nature |-> "General Complaint / Other Offence",
      description |->
        "The facts provided do not clearly correspond to a single criminal classification. Barangay officials should evaluate all facts and identify applicable laws.",
      violations |->
        << [ title |-> "Barangay justice system",
             basis |-> "Local Government Code & Katarungang Pambarangay Rules",
             text |-> "Most disputes between residents of the same barangay must be referred to the Lupong Tagapamayapa for amicable settlement before they can be filed in court. Exceptions include offences punishable by more than one year's imprisonment or a fine exceeding PHP5,000.",
             penalty |-> "If mediation fails, the complaint may proceed to the courts." ],
           [ title |-> "Relevant local ordinances",
             basis |-> "San Pedro City ordinances",
             text |-> "San Pedro City enacts ordinances on matters such as noise control, curfew, sanitation, environmental protection and employment. Depending on the complaint, specific ordinances may apply.",
             penalty |-> "Penalties vary by ordinance." ] >>,
      jurisprudence |->
        <<>>,
      counters |->
        <<>> ]

LEGAL_DATA ==
    ("theft" :> LEGAL_theft) @@ ("threat" :> LEGAL_threat) @@
    ("defamation" :> LEGAL_defamation) @@ ("injury" :> LEGAL_injury) @@
    ("general" :> LEGAL_general)

\* mutant: the table has no record for the default category
Lookup_noGeneral(c) ==
    IF c \in DOMAIN LEGAL_DATA \ {"general"} THEN LEGAL_DATA[c] ELSE Undefined

\* LEGAL_DATA[classification]: a property read, undefined for a missing key
Lookup(c) ==
    IF c \in DOMAIN LEGAL_DATA THEN LEGAL_DATA[c] ELSE Undefined

(***************************************************************************)
(* Date: new Date(string) and toLocaleString('en-US', Asia/Manila)         *)
(***************************************************************************)
DigitChars == <<"0", "1", "2", "3", "4", "5", "6", "7", "8", "9">>
IsDigit(c) == \E i \in 1..Len(DigitChars) : DigitChars[i] = c
DigitVal(c) == (CHOOSE i \in 1..Len(DigitChars) : DigitChars[i] = c) - 1

\* the number written by the digits s[from..to]
RECURSIVE NumAt(_, _, _)
NumAt(s, from, to) ==
    IF to < from THEN 0 ELSE NumAt(s, from, to - 1) * 10 + DigitVal(s[to])

\* the decimal digits of n >= 0
RECURSIVE Digits(_)
Digits(n) ==
    IF n < 10 THEN <<DigitChars[n + 1]>>
    ELSE Digits(n \div 10) \o <<DigitChars[(n % 10) + 1]>>

\* two digits, as the minute and second fields are printed
Pad2(n) == IF n < 10 THEN <<"0">> \o Digits(n) ELSE Digits(n)

IsLeap(y) == (y % 4 = 0 /\ y % 100 # 0) \/ y % 400 = 0
DaysInMonth(y, m) ==
    IF m = 2 THEN (IF IsLeap(y) THEN 29 ELSE 28)
    ELSE IF m \in {4, 6, 9, 11} THEN 30 ELSE 31

\* an Invalid Date (time value NaN)
NaNDate == [valid |-> FALSE, y |-> 0, mo |-> 0, d |-> 0, h |-> 0, mi |-> 0]

\* the text has the shape YYYY-MM-DDTHH:mm of a datetime-local value
IsLocalDateTimeText(s) ==
    /\ Len(s) = 16
    /\ \A i \in {1, 2, 3, 4, 6, 7, 9, 10, 12, 13, 15, 16} : IsDigit(s[i])
    /\ s[5] = "-" /\ s[8] = "-" /\ s[11] = "T" /\ s[14] = ":"

\* new Date(text): a date-time text without offset is read as local time; text
\* that is no date at all gives an Invalid Date.  The wall-clock fields read
\* are those of the host's zone.
ParseDate(s) ==
    IF ~IsLocalDateTimeText(s) THEN NaNDate
    ELSE LET y == NumAt(s, 1, 4)   mo == NumAt(s, 6, 7)    d == NumAt(s, 9, 10)
             h == NumAt(s, 12, 13) mi == NumAt(s, 15, 16)
         IN  IF mo \in 1..12 /\ d \in 1..DaysInMonth(y, mo) /\ h \in 0..23 /\ mi \in 0..59
             THEN [valid |-> TRUE, y |-> y, mo |-> mo, d |-> d, h |-> h, mi |-> mi]
             ELSE NaNDate

\* Asia/Manila is UTC+8 all year
ManilaUtcOffset == 8

NextDay(t) ==
    IF t.d < DaysInMonth(t.y, t.mo) THEN [t EXCEPT !.d = @ + 1]
    ELSE IF t.mo < 12 THEN [t EXCEPT !.d = 1, !.mo = @ + 1]
    ELSE [t EXCEPT !.d = 1, !.mo = 1, !.y = @ + 1]

PrevDay(t) ==
    IF t.d > 1 THEN [t EXCEPT !.d = @ - 1]
    ELSE IF t.mo > 1 THEN [t EXCEPT !.d = DaysInMonth(t.y, t.mo - 1), !.mo = @ - 1]
    ELSE [t EXCEPT !.d = 31, !.mo = 12, !.y = @ - 1]

\* the wall clock in Manila of a time read in a zone `zone` hours east of UTC
InManila(t, zone) ==
    LET h == t.h + (ManilaUtcOffset - zone)
    IN  IF h >= 24 THEN [NextDay(t) EXCEPT !.h = h - 24]
        ELSE IF h < 0 THEN [PrevDay(t) EXCEPT !.h = h + 24]
        ELSE [t EXCEPT !.h = h]

InvalidDateText == <<"I", "n", "v", "a", "l", "i", "d", " ", "D", "a", "t", "e">>

\* Date.prototype.toLocaleString('en-US', { timeZone: 'Asia/Manila' }):
\* "M/D/YYYY, h:mm:ss AM", and "Invalid Date" for an Invalid Date
toLocaleString(t, zone) ==
    IF ~t.valid THEN InvalidDateText
    ELSE LET m == InManila(t, zone)
             h12 == IF m.h % 12 = 0 THEN 12 ELSE m.h % 12
         IN  Digits(m.mo) \o <<"/">> \o Digits(m.d) \o <<"/">> \o Digits(m.y)
             \o <<",", " ">> \o Digits(h12) \o <<":">> \o Pad2(m.mi)
             \o <<":", "0", "0", " ">> \o (IF m.h < 12 THEN <<"A", "M">> ELSE <<"P", "M">>)

(***************************************************************************)
(* generateMediationStrategy                                               *)
(***************************************************************************)
commonObjectives ==
    << "Clarify all facts and ensure both parties are fully heard",
       "Encourage parties to agree on appropriate restitution or compensation",
       "Promote respect and restore harmony within the barangay community",
       "Prevent escalation to formal court proceedings when possible",
       "Ensure compliance with applicable laws and ordinances" >>

ObjectivesLimit == 5

\* the sequence without its i-th element
RemoveAt(seq, i) == SubSeq(seq, 1, i - 1) \o SubSeq(seq, i + 1, Len(seq))

\* Array.prototype.slice(0, n)
slice0(arr, n) == SubSeq(arr, 1, IF n < Len(arr) THEN n ELSE Len(arr))

\* the switch on the classification: issues, notForMediation, outcomes
strategyCases(c) ==
    CASE c = "theft" ->
        [ issues |-> << "Return of the allegedly stolen property or restitution of its value",
                        "Apology and acknowledgement of harm caused",
                        "Agreement on future conduct and respect for property rights" >>,
          notForMediation |-> << "Determination of criminal guilt for theft (requires court jurisdiction)" >>,
          outcomes |-> << "Full restitution and documented apology",
                          "Community service or volunteer work as a gesture of remorse" >> ]
      [] c = "threat" ->
        [ issues |-> << "Commitment by respondent to refrain from making threats or harassing statements",
                        "Discussion of any underlying disputes prompting the threat",
                        "Agreement on safety measures or distance requirements" >>,
          notForMediation |-> << "Prosecution of grave threats if elements are present" >>,
          outcomes |-> << "Written undertaking to maintain peace and respect",
                          "Agreement on mutual non-harassment or communications guidelines" >> ]
      [] c = "defamation" ->
        [ issues |-> << "Withdrawal or correction of defamatory statements",
                        "Public or written apology to restore reputation",
                        "Agreement to avoid repeating defamatory statements in the future" >>,
          notForMediation |-> << "Criminal prosecution for serious defamation" >>,
          outcomes |-> << "Signed retraction and apology",
                          "Community clarification to mitigate reputational harm" >> ]
      [] c = "injury" ->
        [ issues |-> << "Compensation for medical expenses and lost wages",
                        "Agreement on avoiding physical confrontation in future",
                        "Exploring root causes of the altercation" >>,
          notForMediation |-> << "Determination of liability for serious physical injuries" >>,
          outcomes |-> << "Payment of medical costs and damages",
                          "Mutual agreement to maintain distance and respect" >> ]
      [] OTHER ->
        [ issues |-> << "Clarification of the specific grievances presented",
                        "Identification of applicable laws and ordinances",
                        "Exploration of remedies agreeable to both parties" >>,
          notForMediation |-> << "Matters involving imprisonment of more than one year or fines over PHP5,000" >>,
          outcomes |-> << "Amicable settlement documented with the Lupong Tagapamayapa",
                          "Referral to appropriate agencies if outside barangay jurisdiction" >> ]

\* the date the page was loaded, in UTC
ClockStart == [valid |-> TRUE, y |-> 2024, mo |-> 5, d |-> 1, h |-> 12, mi |-> 0]

\* the date n days after t
RECURSIVE AddDays(_, _)
AddDays(t, n) == IF n = 0 THEN t ELSE AddDays(NextDay(t), n - 1)

\* new Date(): the current time
newDate == AddDays(ClockStart, now)

\* Date.prototype.toLocaleDateString('en-US', { timeZone: 'Asia/Manila' })
toLocaleDateString(t) ==
    LET mt == InManila(t, 0)
    IN  Digits(mt.mo) \o <<"/">> \o Digits(mt.d) \o <<"/">> \o Digits(mt.y)

\* the sequence with its first n elements moved to the end
Rotate(seq, n) == SubSeq(seq, n + 1, Len(seq)) \o SubSeq(seq, 1, n)

\* a variant that does randomise the order, seeded by the clock
generateMediationStrategy_shuffled(c) ==
    LET byCase == strategyCases(c)
    IN  [ objectives |-> Rotate(commonObjectives, now % Len(commonObjectives)),
          issues |-> byCase.issues,
          notForMediation |-> byCase.notForMediation, outcomes |-> byCase.outcomes ]

\* a variant whose objectives leave restitution out of a threat case
generateMediationStrategy_byCategory(c) ==
    LET byCase == strategyCases(c)
    IN  [ objectives |-> IF c = "threat" THEN RemoveAt(commonObjectives, 2)
                         ELSE commonObjectives,
          issues |-> byCase.issues,
          notForMediation |-> byCase.notForMediation, outcomes |-> byCase.outcomes ]

generateMediationStrategy(c) ==
    LET localeDate == toLocaleDateString(newDate)
        selectedObjectives == slice0(commonObjectives, ObjectivesLimit)
        byCase == strategyCases(c)
    IN  [ objectives |-> selectedObjectives,
          issues |-> byCase.issues,
          notForMediation |-> byCase.notForMediation,
          outcomes |-> byCase.outcomes ]

(***************************************************************************)
(* generateQuestions                                                       *)
(***************************************************************************)
\* a question is a template literal: its pieces in order, fixed text (lit)
\* or an interpolated value (val)
Lit(text) == [lit |-> text, val |-> <<>>]
Val(chars) == [lit |-> "", val |-> chars]

\* a JavaScript value is falsy: here undefined or the empty string
Falsy(v) == v.t = "undefined" \/ (v.t = "string" /\ v.s = <<>>)

TheLocationText == <<"t", "h", "e", " ", "l", "o", "c", "a", "t", "i", "o", "n">>

\* const dt = dateTime ? new Date(dateTime).toLocaleString(...) : ''
questionDt(dateTime) ==
    IF Falsy(dateTime) THEN <<>> ELSE toLocaleString(ParseDate(dateTime.s), hostZone)

\* const loc = location || 'the location'
questionLoc(location) ==
    IF Falsy(location) THEN TheLocationText ELSE location.s

\* the fifteen template literals pushed to the five arrays
questionTemplates(party, loc, dt) ==
    [ openEnded |->
        << << Lit("Can you describe in your own words what happened at "), Val(loc),
              Lit(" on "), Val(dt), Lit("?") >>,
           << Lit("What events led up to the incident and how did you react?") >>,
           << Lit("How has this incident affected you personally and your daily life?") >> >>,
      clarifying |->
        << << Lit("What time did the incident occur and who else was present?") >>,
           << Lit("Where exactly at "), Val(loc), Lit(" did the interaction take place?") >>,
           << Lit("Can you specify any statements or actions you find particularly significant?") >> >>,
      reflective |->
        << << Lit("How do you think the other party felt during the incident?") >>,
           << Lit("Looking back, is there anything you wish had been done differently?") >>,
           << Lit("How has this dispute impacted your relationship with the other party?") >> >>,
      exploratory |->
        << << Lit("What do you consider a fair and just resolution to this dispute?") >>,
           << Lit("Are there any compromises you are willing to make to settle this matter?") >>,
           << Lit("What would rebuilding trust look like for you?") >> >>,
      conscience |->
        << << Lit("If the roles were reversed, how would you want to be treated?") >>,
           << Lit("What message do you want to send to the community about resolving disputes?") >>,
           << Lit("How would an amicable settlement benefit both you and the other party?") >> >> ]

\* mutant: a reflective question names the place and the date too
generateQuestions_moreInterpolation(c, role, location, dateTime) ==
    LET q == questionTemplates("you", questionLoc(location), questionDt(dateTime))
    IN  [q EXCEPT !.reflective[2] =
            << Lit("Looking back at "), Val(questionLoc(location)), Lit(" on "),
               Val(questionDt(dateTime)), Lit(", what do you wish had been done differently?") >>]

\* mutant: the location is interpolated without the fallback text
generateQuestions_noPlaceholder(c, role, location, dateTime) ==
    questionTemplates("you", location.s, questionDt(dateTime))

\* mutant: the respondent is asked about "the complainant"
generateQuestions_byRole(c, role, location, dateTime) ==
    LET q == questionTemplates("you", questionLoc(location), questionDt(dateTime))
    IN  IF role = "complainant" THEN q
        ELSE [q EXCEPT !.reflective[1] =
                << Lit("How do you think the complainant felt during the incident?") >>]

\* a variant that skips one push when no location is given
generateQuestions_skipsPush(c, role, location, dateTime) ==
    LET q == questionTemplates("you", questionLoc(location), questionDt(dateTime))
    IN  IF Falsy(location) THEN [q EXCEPT !.clarifying = SubSeq(@, 1, 2)] ELSE q

generateQuestions(c, role, location, dateTime) ==
    LET party == IF role = "complainant" THEN "you" ELSE "you"
        dt == questionDt(dateTime)
        loc == questionLoc(location)
    IN  questionTemplates(party, loc, dt)

(***************************************************************************)
(* Report assembly: the body of generateReport after validation            *)
(***************************************************************************)
\* a party's four fields, trimmed
trimParty(p) ==
    [ name |-> trim(p.name), phone |-> trim(p.phone),
      email |-> trim(p.email), address |-> trim(p.address) ]

\* a variant that keeps only the entries with a name
partyFilled_nameOnly(p) == p.name # <<>>

\* if (name || phone || email || address)
partyFilled(p) ==
    p.name # <<>> \/ p.phone # <<>> \/ p.email # <<>> \/ p.address # <<>>

\* the form as gatherData reads it from the document
TheForm ==
    [ caseId |-> caseIdVal, dateReceived |-> dateReceivedVal,
      complainant |-> complainantVal, respondents |-> respondentEls,
      summary |-> summaryVal, location |-> locationVal, dateTime |-> dateVal ]

\* a variant that titles the case after any complainant with a filled field
caseTitle_anyField(complainant) ==
    IF partyFilled(complainant)
    THEN << Val(complainant.name), Lit(" Case") >>
    ELSE << Lit("Complainant Case") >>

\* let caseTitle = 'Complainant Case'; if (complainant.name) caseTitle = ...
caseTitle(complainant) ==
    IF complainant.name # <<>>
    THEN << Val(complainant.name), Lit(" Case") >>
    ELSE << Lit("Complainant Case") >>

\* gatherData
gatherData(form) ==
    LET complainant == trimParty(form.complainant)
        respondents ==
            SelectSeq([i \in 1..Len(form.respondents) |-> trimParty(form.respondents[i])],
                      partyFilled)
    IN  [ caseId |-> trim(form.caseId),
          dateReceived |-> form.dateReceived,
          complainant |-> complainant,
          respondents |-> respondents,
          incident |-> [ summary |-> trim(form.summary), location |-> trim(form.location),
                         dateTime |-> form.dateTime ],
          caseTitle |-> caseTitle(complainant) ]

\* a variant that always takes the General entry
analysisOf_general(c) == Lookup("general")

\* const analysis = LEGAL_DATA[classification]
analysisOf(c) == Lookup(c)

\* mutant: the strategy is asked for with the summary instead of the
\* classification, which no case of its switch recognises
mediationOf_bySummary(c) == generateMediationStrategy("summary text")

\* const mediation = generateMediationStrategy(classification)
mediationOf(c) == generateMediationStrategy(c)

\* const questions = { complainant: ..., respondent: ... }
questionsOf(c, fd) ==
    [ complainant |-> generateQuestions(c, "complainant",
                          Str(fd.incident.location), Str(fd.incident.dateTime)),
      respondent |-> generateQuestions(c, "respondent",
                          Str(fd.incident.location), Str(fd.incident.dateTime)) ]

\* const reportData = { ...formData, analysis, mediation, questions }
reportDataOf(fd, a, m, q) ==
    [ caseId |-> fd.caseId, dateReceived |-> fd.dateReceived,
      complainant |-> fd.complainant, respondents |-> fd.respondents,
      incident |-> fd.incident, caseTitle |-> fd.caseTitle,
      analysis |-> a, mediation |-> m, questions |-> q ]

(***************************************************************************)
(* Inputs                                                                  *)
(***************************************************************************)
\* how far beyond the minimum length the longest summary goes
MaxExtra == 1

\* body, filled with a letter of no keyword up to n characters
FillTo(body, n) == body \o [i \in 1..(n - Len(body)) |-> "z"]

SummaryLens == (MinSummaryLen - 1)..(MinSummaryLen + MaxExtra)

FormBodies ==
    { <<>>,
      <<"h", "i", "t", " ", "t", "o", "o", "k", " ">>,
      <<"i", "n", "s", "u", "l", "t", " ", "K", "I", "L", "L", " ">> }

\* summaries around the minimum length: filler alone at every length, each
\* keyword body at the minimum, and a padded one just below and at the minimum
FormSummaries ==
    {<<>>}
    \cup {FillTo(<<>>, n) : n \in SummaryLens}
    \cup {FillTo(b, MinSummaryLen) : b \in FormBodies}
    \cup {<<" ">> \o FillTo(<<"o", "r", "a", "l", " ">>, n) \o <<"\n">> :
             n \in (MinSummaryLen - 1)..MinSummaryLen}

FormLocations == { <<>>, <<" ">>, <<" ", "P", "u", "r", "o", "k", " ", "3", " ">> }

FormDateTimes ==
    { <<>>,
      <<"s", "o", "o", "n">>,
      <<"2", "0", "2", "4", "-", "0", "5", "-", "0", "1", "T", "2", "0", ":", "0", "0">> }

\* Manila, UTC
HostZones == {8, 0}

(***************************************************************************)
(* State machine of the page                                               *)
(***************************************************************************)
NoMarks == [summary |-> FALSE, location |-> FALSE, dateTime |-> FALSE]

BlankParty == [name |-> <<>>, phone |-> <<>>, email |-> <<>>, address |-> <<>>]

\* the respondent markup with empty inputs, index 1 and a hidden Remove
\* button: what the clear handler builds, and what the page starts with
respondentTemplate ==
    [ name |-> <<>>, phone |-> <<>>, email |-> <<>>, address |-> <<>>,
      index |-> 1, removeShown |-> FALSE ]

\* refreshRespondentIndices
refreshRespondentIndices(els) ==
    [i \in 1..Len(els) |-> [els[i] EXCEPT !.index = i, !.removeShown = Len(els) > 1]]

\* config.js as shipped
ConfigJs == [GOOGLE_API_KEY |-> "", GOOGLE_CSE_ID |-> ""]

\* #legal-results before any search
EmptyPanel == [text |-> <<>>, cards |-> <<>>]

\* everything but the content of the form fields, as the page starts
InitPage ==
    /\ invalid = NoMarks
    /\ hostZone \in HostZones
    /\ pc = "idle"
    /\ formData = Undefined /\ classification = "undefined"
    /\ analysis = Undefined /\ mediation = Undefined /\ questions = Undefined
    /\ classifyCalls = 0
    /\ threw = FALSE
    /\ reportContent = <<>>
    /\ reportVisible = FALSE
    /\ generatedSinceClear = FALSE
    /\ now = 0
    /\ fnCall = [op |-> "none"]
    /\ fnResult = Undefined
    /\ queryVal = <<>>
    /\ resultsText = EmptyPanel
    /\ searches = <<>>
    /\ requests = <<>>
    /\ searchThrew = FALSE

\* the page as loaded: an empty form with one respondent entry
Init ==
    /\ InitPage
    /\ summaryVal = <<>> /\ locationVal = <<>> /\ dateVal = <<>>
    /\ caseIdVal = <<>> /\ dateReceivedVal = <<>>
    /\ complainantVal = BlankParty
    /\ respondentEls = <<respondentTemplate>>
    /\ LEGAL_SEARCH = ConfigJs

\* no handler is running: the page waits for the user
Waiting == pc \in {"idle", "rendered", "failed"}

\* the user edits the incident summary
SetSummary ==
    /\ Waiting
    /\ \E s \in FormSummaries : s # summaryVal /\ summaryVal' = s
    /\ UNCHANGED <<locationVal, dateVal, invalid, hostZone, pc, localVars, threw,
                   reportContent, reportVisible, generatedSinceClear,
                   partyVars, now, fnVars, searchVars>>

\* the user edits the incident location
SetLocation ==
    /\ Waiting
    /\ \E l \in FormLocations : l # locationVal /\ locationVal' = l
    /\ UNCHANGED <<summaryVal, dateVal, invalid, hostZone, pc, localVars, threw,
                   reportContent, reportVisible, generatedSinceClear,
                   partyVars, now, fnVars, searchVars>>

\* the user edits the incident date and time
SetDateTime ==
    /\ Waiting
    /\ \E d \in FormDateTimes : d # dateVal /\ dateVal' = d
    /\ UNCHANGED <<summaryVal, locationVal, invalid, hostZone, pc, localVars, threw,
                   reportContent, reportVisible, generatedSinceClear,
                   partyVars, now, fnVars, searchVars>>

\* mutant: the return after a failed validation is missing
GenerateClick_noReturn ==
    /\ Waiting
    /\ invalid' = validateMarks(summaryVal, locationVal, dateVal)
    /\ pc' = "classifying"
    /\ formData' = gatherData(TheForm)
    /\ classification' = "undefined"
    /\ analysis' = Undefined /\ mediation' = Undefined /\ questions' = Undefined
    /\ classifyCalls' = 0
    /\ threw' = FALSE
    /\ UNCHANGED <<formVars, hostZone, reportContent, reportVisible, generatedSinceClear,
                   partyVars, now, fnVars, searchVars>>

\* a variant that empties and hides the report when validation fails
GenerateClick_clearsReport ==
    /\ Waiting
    /\ invalid' = validateMarks(summaryVal, locationVal, dateVal)
    /\ IF validateForm(summaryVal, locationVal, dateVal)
       THEN /\ pc' = "classifying"
            /\ formData' = gatherData(TheForm)
            /\ UNCHANGED <<reportContent, reportVisible>>
       ELSE /\ pc' = "idle"
            /\ formData' = Undefined
            /\ reportContent' = <<>> /\ reportVisible' = FALSE
    /\ classification' = "undefined"
    /\ analysis' = Undefined /\ mediation' = Undefined /\ questions' = Undefined
    /\ classifyCalls' = 0
    /\ threw' = FALSE
    /\ UNCHANGED <<formVars, hostZone, generatedSinceClear, partyVars, now, fnVars, searchVars>>

\* click on #generateBtn: generateReport starts with fresh locals and runs
\* if (!validateForm()) { scrollTo; return; }  const formData = gatherData();
GenerateClick ==
    /\ Waiting
    /\ invalid' = validateMarks(summaryVal, locationVal, dateVal)
    /\ IF validateForm(summaryVal, locationVal, dateVal)
       THEN /\ pc' = "classifying"
            /\ formData' = gatherData(TheForm)
       ELSE /\ pc' = "idle"
            /\ formData' = Undefined
    /\ classification' = "undefined"
    /\ analysis' = Undefined /\ mediation' = Undefined /\ questions' = Undefined
    /\ classifyCalls' = 0
    /\ threw' = FALSE
    /\ UNCHANGED <<formVars, hostZone, reportContent, reportVisible, generatedSinceClear,
                   partyVars, now, fnVars, searchVars>>

\* const classification = classifyCase(formData.incident.summary)
ClassifyStep ==
    /\ pc = "classifying"
    /\ classification' = classifyCase(formData.incident.summary)
    /\ classifyCalls' = classifyCalls + 1
    /\ pc' = "analyzing"
    /\ UNCHANGED <<formVars, invalid, hostZone, formData, analysis, mediation, questions,
                   threw, reportContent, reportVisible, generatedSinceClear,
                   partyVars, now, fnVars, searchVars>>

\* the lookup, the strategy and the two question sets
AnalyzeStep ==
    /\ pc = "analyzing"
    /\ analysis' = analysisOf(classification)
    /\ mediation' = mediationOf(classification)
    /\ questions' = questionsOf(classification, formData)
    /\ pc' = "assembling"
    /\ UNCHANGED <<formVars, invalid, hostZone, formData, classification, classifyCalls,
                   threw, reportContent, reportVisible, generatedSinceClear,
                   partyVars, now, fnVars, searchVars>>

\* reportData is composed, renderReport(reportData) fills #reportContent and
\* the report section is shown; renderReport reads data.analysis.nature, which
\* raises a TypeError when analysis is undefined
AssembleStep ==
    /\ pc = "assembling"
    /\ reportContent' = <<reportDataOf(formData, analysis, mediation, questions)>>
    /\ IF analysis = Undefined
       THEN /\ threw' = TRUE /\ pc' = "failed"
            /\ UNCHANGED <<reportVisible, generatedSinceClear>>
       ELSE /\ threw' = FALSE /\ pc' = "rendered"
            /\ reportVisible' = TRUE /\ generatedSinceClear' = TRUE
    /\ UNCHANGED <<formVars, invalid, hostZone, localVars, partyVars, now, fnVars, searchVars>>

\* click on #clearBtn: the report section is hidden and the respondent list
\* is rebuilt as one entry from the template
ClearForm ==
    /\ Waiting
    /\ reportVisible' = FALSE
    /\ generatedSinceClear' = FALSE
    /\ respondentEls' = refreshRespondentIndices(<<respondentTemplate>>)
    /\ UNCHANGED <<formVars, invalid, hostZone, pc, localVars, threw, reportContent,
                   caseIdVal, dateReceivedVal, complainantVal, now, fnVars, searchVars>>

Next ==
    \/ SetSummary
    \/ SetLocation
    \/ SetDateTime
    \/ GenerateClick
    \/ ClassifyStep
    \/ AnalyzeStep
    \/ AssembleStep
    \/ ClearForm

Spec == Init /\ [][Next]_vars

(***************************************************************************)
(* The respondent list of the form                                         *)
(***************************************************************************)
\* the most respondent entries the list is grown to
MaxRespondents == 3

PartyFields == {"name", "phone", "email", "address"}

RespondentTexts == { <<>>, <<"B", "e", "n">> }

\* a variant that appends the clone and leaves the indices as they are
addRespondent_noRefresh(els) ==
    LET last == els[Len(els)]
    IN  Append(els, [last EXCEPT !.name = <<>>, !.phone = <<>>, !.email = <<>>,
                                 !.address = <<>>])

\* addRespondent: the last entry is cloned, the clone's inputs are emptied,
\* it is appended and the indices are refreshed
addRespondent(els) ==
    LET last == els[Len(els)]
        clone == [last EXCEPT !.name = <<>>, !.phone = <<>>, !.email = <<>>, !.address = <<>>]
    IN  refreshRespondentIndices(Append(els, clone))

\* removeRespondent(btn): the entry of the button is removed and the indices
\* are refreshed
removeRespondent(els, i) == refreshRespondentIndices(RemoveAt(els, i))

\* click on #addRespondentBtn
AddRespondent ==
    /\ Waiting
    /\ Len(respondentEls) < MaxRespondents
    /\ respondentEls' = addRespondent(respondentEls)
    /\ UNCHANGED <<formVars, invalid, hostZone, pc, localVars, threw, reportContent,
                   reportVisible, generatedSinceClear, caseIdVal, dateReceivedVal,
                   complainantVal, now, fnVars, searchVars>>

\* click on the Remove button of an entry; a button that is not displayed
\* cannot be clicked
RemoveRespondent ==
    /\ Waiting
    /\ \E i \in 1..Len(respondentEls) :
         /\ respondentEls[i].removeShown
         /\ respondentEls' = removeRespondent(respondentEls, i)
    /\ UNCHANGED <<formVars, invalid, hostZone, pc, localVars, threw, reportContent,
                   reportVisible, generatedSinceClear, caseIdVal, dateReceivedVal,
                   complainantVal, now, fnVars, searchVars>>

\* the user edits one input of one respondent entry
EditRespondent ==
    /\ Waiting
    /\ \E i \in 1..Len(respondentEls), f \in PartyFields, t \in RespondentTexts :
         /\ respondentEls[i][f] # t
         /\ respondentEls' = [respondentEls EXCEPT ![i][f] = t]
    /\ UNCHANGED <<formVars, invalid, hostZone, pc, localVars, threw, reportContent,
                   reportVisible, generatedSinceClear, caseIdVal, dateReceivedVal,
                   complainantVal, now, fnVars, searchVars>>

ListNext ==
    \/ AddRespondent
    \/ RemoveRespondent
    \/ EditRespondent
    \/ ClearForm

SpecList == Init /\ [][ListNext]_vars

(***************************************************************************)
(* Reports generated again and again from one filled form, as time passes  *)
(***************************************************************************)
\* the most respondent entries of a filled form
MaxEntries == 2
\* the days the clock runs
MaxTicks == 1

FilledNames ==
    { <<>>, <<" ">>, <<"A", "n", "a">>, <<" ", "A", "n", "a", "\t">> }
FilledPhones == { <<>>, <<"0", "9", "1", "7">> }
FilledCaseIds == { <<>>, <<" ", "7", " ">> }

FilledRespondents ==
    { BlankParty,
      [BlankParty EXCEPT !.name = <<" ">>, !.address = <<"\t">>],
      [BlankParty EXCEPT !.name = <<" ", "B", "e", "n", " ">>],
      [BlankParty EXCEPT !.phone = <<"0", "9", "1", "8">>, !.address = <<"P", "u", "r", "o", "k", " ", "3">>] }

\* the respondent entries of a form: 1..n parties with their indices shown
RECURSIVE PartyLists(_)
PartyLists(n) ==
    IF n = 0 THEN {<<>>}
    ELSE LET shorter == PartyLists(n - 1)
         IN  shorter \cup {Append(l, p) : l \in shorter, p \in FilledRespondents}

AsElements(parties) ==
    refreshRespondentIndices(
        [i \in 1..Len(parties) |->
            [ name |-> parties[i].name, phone |-> parties[i].phone,
              email |-> parties[i].email, address |-> parties[i].address,
              index |-> i, removeShown |-> FALSE ]])

FilledSummary == FillTo(<<"i", "n", "s", "u", "l", "t", " ", "K", "I", "L", "L", " ">>, MinSummaryLen)

\* "Someone took my carabao last night"
TheftSummary ==
    <<"S", "o", "m", "e", "o", "n", "e", " ", "t", "o", "o", "k", " ", "m", "y", " ", "c">>
    \o <<"a", "r", "a", "b", "a", "o", " ", "l", "a", "s", "t", " ", "n", "i", "g", "h", "t">>

InitFilled ==
    /\ InitPage
    /\ summaryVal \in {FilledSummary, TheftSummary}
    /\ locationVal = <<" ", "P", "u", "r", "o", "k", " ", "3", " ">>
    /\ dateVal = <<"2", "0", "2", "4", "-", "0", "5", "-", "0", "1", "T", "2", "0", ":", "0", "0">>
    /\ caseIdVal \in FilledCaseIds
    /\ dateReceivedVal = <<>>
    /\ \E n \in FilledNames, p \in FilledPhones :
          complainantVal = [BlankParty EXCEPT !.name = n, !.phone = p]
    /\ \E l \in PartyLists(MaxEntries) \ {<<>>} : respondentEls = AsElements(l)
    /\ LEGAL_SEARCH = ConfigJs

\* a day passes
Tick ==
    /\ Waiting
    /\ now < MaxTicks
    /\ now' = now + 1
    /\ UNCHANGED <<formVars, invalid, hostZone, pc, localVars, threw, reportContent,
                   reportVisible, generatedSinceClear, partyVars, fnVars, searchVars>>

FilledNext ==
    \/ GenerateClick
    \/ ClassifyStep
    \/ AnalyzeStep
    \/ AssembleStep
    \/ Tick

SpecFilled == InitFilled /\ [][FilledNext]_vars

(***************************************************************************)
(* research.js: the legal search panel                                     *)
(***************************************************************************)
\* the most searches started in a behaviour
MaxSearches == 2

\* 'Searching...' (the source has the one-character ellipsis)
SearchingText == [text |-> <<"Searching...">>, cards |-> <<>>]
NoResultsText == [text |-> <<"No results found on trusted sources.">>, cards |-> <<>>]
\* 'Error: ' + err.message
ErrorText(message) == [text |-> <<"Error: ">> \o message, cards |-> <<>>]
\* one .result-card per item
Cards(items) == [text |-> <<>>, cards |-> items]

ConfigErrorMessage ==
    << "Please configure GOOGLE_API_KEY and GOOGLE_CSE_ID in config.js" >>
StatusErrorMessage(status) == << "Search request failed: ", status >>

\* a variant of legalSearch that builds and sends the request before it
\* looks at the configuration
legalSearch_fetchFirst(cfg, query) ==
    [ pc |-> IF cfg.GOOGLE_API_KEY = "" \/ cfg.GOOGLE_CSE_ID = "" THEN "rejected"
             ELSE "fetching",
      error |-> IF cfg.GOOGLE_API_KEY = "" \/ cfg.GOOGLE_CSE_ID = ""
                THEN ConfigErrorMessage ELSE <<>>,
      request |-> << [key |-> cfg.GOOGLE_API_KEY, cx |-> cfg.GOOGLE_CSE_ID, q |-> query] >> ]

\* legalSearch(query) up to its first await: the promise is rejected when a
\* credential is missing, otherwise the request is handed to fetch
legalSearch(cfg, query) ==
    LET apiKey == cfg.GOOGLE_API_KEY
        cseId == cfg.GOOGLE_CSE_ID
    IN  IF apiKey = "" \/ cseId = ""
        THEN [ pc |-> "rejected", error |-> ConfigErrorMessage, request |-> <<>> ]
        ELSE [ pc |-> "fetching", error |-> <<>>,
               request |-> << [key |-> apiKey, cx |-> cseId, q |-> query] >> ]

\* item => ({ title, link, displayLink, snippet: item.snippet || '' })
mapItem(item) ==
    [ title |-> item.title, link |-> item.link, displayLink |-> item.displayLink,
      snippet |-> IF Falsy(item.snippet) THEN <<>> ELSE item.snippet.s ]

\* legalSearch after fetch has settled with res: what the promise becomes
legalSearchSettled(res) ==
    IF res.failed THEN [ pc |-> "rejected", error |-> << "Failed to fetch" >>, items |-> <<>> ]
    ELSE IF ~res.ok
    THEN [ pc |-> "rejected", error |-> StatusErrorMessage(res.status), items |-> <<>> ]
    ELSE [ pc |-> "fulfilled", error |-> <<>>,
           items |-> IF res.hasItems
                     THEN [i \in 1..Len(res.items) |-> mapItem(res.items[i])]
                     ELSE <<>> ]

\* no rejected promise waits for its catch: the microtask of a rejection runs
\* before any other event is handled
NoMicrotask == \A i \in 1..Len(searches) : searches[i].pc # "rejected"

\* the configurations a deployment may have
Configs == [GOOGLE_API_KEY : {"", "AIza"}, GOOGLE_CSE_ID : {"", "cx01"}]

Queries == { <<>>, <<" ">>, <<"t", "h", "e", "f", "t">>, <<" ", "l", "i", "b", "e", "l", " ">> }

\* what the search service may answer to a query
Responses(query) ==
    LET hit == [ title |-> query, link |-> "https://lawphil.net/judjuris",
                 displayLink |-> "lawphil.net" ]
    IN  { [failed |-> TRUE, ok |-> FALSE, status |-> "0", hasItems |-> FALSE, items |-> <<>>],
          [failed |-> FALSE, ok |-> FALSE, status |-> "403", hasItems |-> FALSE, items |-> <<>>],
          [failed |-> FALSE, ok |-> FALSE, status |-> "500", hasItems |-> FALSE, items |-> <<>>],
          [failed |-> FALSE, ok |-> TRUE, status |-> "200", hasItems |-> FALSE, items |-> <<>>],
          [failed |-> FALSE, ok |-> TRUE, status |-> "200", hasItems |-> TRUE, items |-> <<>>],
          [failed |-> FALSE, ok |-> TRUE, status |-> "200", hasItems |-> TRUE,
           items |-> << [title |-> hit.title, link |-> hit.link,
                         displayLink |-> hit.displayLink, snippet |-> Undefined] >>],
          [failed |-> FALSE, ok |-> TRUE, status |-> "200", hasItems |-> TRUE,
           items |-> << [title |-> hit.title, link |-> hit.link,
                         displayLink |-> hit.displayLink,
                         snippet |-> Str(<<"A", "r", "t", ".">>)] >>] }

InitSearch ==
    /\ InitPage
    /\ summaryVal = <<>> /\ locationVal = <<>> /\ dateVal = <<>>
    /\ caseIdVal = <<>> /\ dateReceivedVal = <<>>
    /\ complainantVal = BlankParty
    /\ respondentEls = <<respondentTemplate>>
    /\ LEGAL_SEARCH \in Configs

\* the user edits the search box
SetQuery ==
    /\ NoMicrotask
    /\ \E q \in Queries : q # queryVal /\ queryVal' = q
    /\ UNCHANGED <<pageVars, LEGAL_SEARCH, resultsText, searches, requests, searchThrew>>

\* the searches whose request is waiting for its response
InFlight == { i \in 1..Len(searches) : searches[i].pc = "fetching" }

\* startLegalSearch: an empty trimmed query returns; otherwise
\* runLegalSearchUI(q) shows 'Searching...' and calls legalSearch(q), which
\* runs to its first await
StartLegalSearch ==
    /\ NoMicrotask
    /\ Len(searches) < MaxSearches
    /\ LET q == trim(queryVal)
       IN  IF q = <<>>
           THEN UNCHANGED <<resultsText, searches, requests>>
           ELSE LET promise == legalSearch(LEGAL_SEARCH, q)
                IN  /\ resultsText' = SearchingText
                    /\ searches' = Append(searches,
                          [ query |-> q, pc |-> promise.pc, error |-> promise.error,
                            sent |-> promise.request # <<>>,
                            \* history: the searches in flight when this one
                            \* started, and what it wrote on completing
                            overlaps |-> InFlight, outcome |-> EmptyPanel ])
                    /\ requests' = requests \o promise.request
    /\ UNCHANGED <<pageVars, LEGAL_SEARCH, queryVal, searchThrew>>

\* fetch settles for one of the searches in flight and runLegalSearchUI goes
\* on after its await: no items, cards, or a rejected promise
ReceiveResponse ==
    /\ NoMicrotask
    /\ \E i \in 1..Len(searches) :
         /\ searches[i].pc = "fetching"
         /\ \E res \in Responses(searches[i].query) :
              LET promise == legalSearchSettled(res)
              IN  IF promise.pc = "rejected"
                  THEN /\ searches' = [searches EXCEPT ![i].pc = "rejected",
                                                       ![i].error = promise.error]
                       /\ UNCHANGED resultsText
                  ELSE LET shown == IF Len(promise.items) = 0 THEN NoResultsText
                                    ELSE Cards(promise.items)
                       IN  /\ searches' = [searches EXCEPT ![i].pc = "done",
                                                           ![i].outcome = shown]
                           /\ resultsText' = shown
    /\ UNCHANGED <<pageVars, LEGAL_SEARCH, queryVal, requests, searchThrew>>

\* a variant of runLegalSearchUI without its catch block
CatchSearchError_uncaught ==
    /\ \E i \in 1..Len(searches) :
         /\ searches[i].pc = "rejected"
         /\ searches' = [searches EXCEPT ![i].pc = "done"]
    /\ searchThrew' = TRUE
    /\ UNCHANGED <<pageVars, LEGAL_SEARCH, queryVal, resultsText, requests>>

\* catch (err) { resultsEl.textContent = 'Error: ' + err.message; }
CatchSearchError ==
    /\ \E i \in 1..Len(searches) :
         /\ searches[i].pc = "rejected"
         /\ resultsText' = ErrorText(searches[i].error)
         /\ searches' = [searches EXCEPT ![i].pc = "done",
                                         ![i].outcome = ErrorText(searches[i].error)]
    /\ UNCHANGED <<pageVars, LEGAL_SEARCH, queryVal, requests, searchThrew>>

SearchNext ==
    \/ SetQuery
    \/ StartLegalSearch
    \/ ReceiveResponse
    \/ CatchSearchError

SpecSearch == InitSearch /\ [][SearchNext]_vars

(***************************************************************************)
(* The pure functions called directly, on arguments of any shape: one call *)
(* per behaviour, since no call leaves anything behind for the next        *)
(***************************************************************************)
Categories == {"theft", "threat", "defamation", "injury", "general"}
Roles == {"complainant", "respondent"}

\* the longest summary of a direct call, in words
MaxWords == 2

FnWords ==
    { <<"t", "o", "o", "k">>,
      <<"R", "O", "B", "B", "E", "D">>,
      <<"T", "h", "r", "e", "a", "t">>,
      <<"h", "u", "r", "t">>,
      <<"s", "l", "a", "n", "d", "e", "r">>,
      <<"O", "r", "a", "l">>,
      <<"p", "u", "n", "c", "h">>,
      <<"H", "I", "T">>,
      <<"p", "r", "o", "b", "l", "e", "m">>,
      <<"t", "o">>,
      <<"o", "k">>,
      <<"n", "o", "i", "s", "e">> }

FnSeparators == { <<>>, <<" ">> }

\* the words joined into summaries of at most n words
RECURSIVE Sentences(_)
Sentences(n) ==
    IF n = 0 THEN {<<>>}
    ELSE LET shorter == Sentences(n - 1)
         IN  shorter \cup {s \o sep \o w : s \in shorter, sep \in FnSeparators, w \in FnWords}

FnSummaries == Sentences(MaxWords) \cup { <<" ">>, <<" ", "\t", "\n">> }

FnLocations ==
    { Undefined, Str(<<>>), Str(<<" ">>), Str(<<"P", "u", "r", "o", "k", " ", "3">>),
      Str(<<"t", "h", "e", " ", "p", "l", "a", "z", "a">>) }

FnDateTimes ==
    { Undefined, Str(<<>>), Str(<<"s", "o", "o", "n">>),
      Str(<<"2", "0", "2", "4", "-", "0", "5", "-", "0", "1", "T", "2", "0", ":", "0", "0">>),
      Str(<<"2", "0", "2", "4", "-", "1", "2", "-", "3", "1", "T", "2", "3", ":", "3", "0">>) }

\* classifyCase(summary)
CallClassifyCase ==
    /\ fnCall.op = "none"
    /\ \E s \in FnSummaries :
         /\ fnCall' = [op |-> "classifyCase", summary |-> s]
         /\ fnResult' = classifyCase(s)
    /\ UNCHANGED <<formVars, invalid, hostZone, pc, localVars, threw,
                   reportContent, reportVisible, generatedSinceClear, partyVars, now, searchVars>>

\* generateQuestions(classification, role, location, dateTime)
CallGenerateQuestions ==
    /\ fnCall.op = "none"
    /\ \E c \in Categories, r \in Roles, l \in FnLocations, d \in FnDateTimes :
         /\ fnCall' = [op |-> "generateQuestions", classification |-> c, role |-> r,
                       location |-> l, dateTime |-> d]
         /\ fnResult' = generateQuestions(c, r, l, d)
    /\ UNCHANGED <<formVars, invalid, hostZone, pc, localVars, threw,
                   reportContent, reportVisible, generatedSinceClear, partyVars, now, searchVars>>

\* the two generateQuestions calls of generateReport, on any incident
CallQuestionsOf ==
    /\ fnCall.op = "none"
    /\ \E c \in Categories, l \in FnLocations, d \in FnDateTimes :
         /\ l.t = "string" /\ d.t = "string"
         /\ LET fd == [incident |-> [summary |-> <<>>, location |-> l.s, dateTime |-> d.s]]
            IN  /\ fnCall' = [op |-> "questionsOf", classification |-> c, formData |-> fd]
                /\ fnResult' = questionsOf(c, fd)
    /\ UNCHANGED <<formVars, invalid, hostZone, pc, localVars, threw,
                   reportContent, reportVisible, generatedSinceClear, partyVars, now, searchVars>>

\* classification values passed to generateMediationStrategy: the five
\* categories and values that are none of them
Classifications == Categories \cup {"estafa", "undefined"}

\* generateMediationStrategy(classification), called at any time of the clock
CallGenerateMediationStrategy ==
    /\ fnCall.op = "none"
    /\ \E c \in Classifications, n \in 0..MaxTicks :
         /\ now' = n
         /\ fnCall' = [op |-> "generateMediationStrategy", classification |-> c, at |-> n]
         /\ fnResult' = generateMediationStrategy(c)'
    /\ UNCHANGED <<formVars, invalid, hostZone, pc, localVars, threw,
                   reportContent, reportVisible, generatedSinceClear, partyVars, searchVars>>

FnNext ==
    \/ CallClassifyCase
    \/ CallGenerateQuestions
    \/ CallQuestionsOf
    \/ CallGenerateMediationStrategy

SpecFn == Init /\ [][FnNext]_vars

(***************************************************************************)
(* Properties                                                              *)
(***************************************************************************)
\* the rules of the classifier in their order of precedence
RuleOrder ==
    << [category |-> "theft", keywords |-> theftKeywords],
       [category |-> "threat", keywords |-> threatKeywords],
       [category |-> "defamation", keywords |-> defamationKeywords],
       [category |-> "injury", keywords |-> injuryKeywords] >>

\* the rules that have a keyword contained in the lower-cased summary
MatchingRules(summary) ==
    {i \in 1..Len(RuleOrder) :
        \E k \in RuleOrder[i].keywords : Contains(toLowerCase(summary), k)}

\* C1: classifyCase returns the category of the first rule, in the order
\* Theft, Threat, Defamation, Injury, that has a keyword contained in the
\* lower-cased summary, and General when no rule has one (so for the empty and
\* the whitespace-only summary); a theft keyword together with an injury
\* keyword gives Theft.
C1_FirstMatchingRule ==
    fnCall.op = "classifyCase" =>
        LET m == MatchingRules(fnCall.summary)
        IN  /\ m = {} => fnResult = "general"
            /\ m # {} => fnResult = RuleOrder[CHOOSE i \in m : \A j \in m : i <= j].category
            /\ trim(fnCall.summary) = <<>> => fnResult = "general"
            /\ {1, 4} \subseteq m => fnResult = "theft"

\* C1 witness: a summary with an injury keyword written before a theft keyword
\* was classified Theft
C1_Witness ==
    /\ fnCall.op = "classifyCase"
    /\ fnCall.summary = <<"H", "I", "T", " ", "t", "o", "o", "k">>
    /\ fnResult = "theft"

\* C2: the analysis, the strategy and both question sets of a report come
\* from one category, the result of the single classifyCase call of the request.
C2_OneCategoryThreaded ==
    pc \in {"assembling", "rendered"} =>
        /\ classifyCalls = 1
        /\ classification = classifyCase(formData.incident.summary)
        /\ analysis = Lookup(classification)
        /\ mediation = generateMediationStrategy(classification)
        /\ questions.complainant =
              generateQuestions(classification, "complainant",
                  Str(formData.incident.location), Str(formData.incident.dateTime))
        /\ questions.respondent =
              generateQuestions(classification, "respondent",
                  Str(formData.incident.location), Str(formData.incident.dateTime))
        /\ pc = "rendered" =>
              /\ reportContent[1].incident = formData.incident
              /\ reportContent[1].analysis = analysis
              /\ reportContent[1].mediation = mediation
              /\ reportContent[1].questions = questions

\* C2 witness: a rendered report of a threat case
C2_Witness ==
    /\ pc = "rendered"
    /\ classification = "threat"
    /\ reportContent[1].mediation = generateMediationStrategy("threat")
    /\ reportContent[1].analysis = LEGAL_DATA["threat"]

\* C3: a click on Generate with an invalid form ends Idle with nothing
\* classified, assembled or rendered; with a valid form the handler goes
\* through classifying, analyzing and assembling in that order and ends
\* Rendered with the report section shown.  Nothing else moves the handler.
C3_TerminalStates ==
    [][ /\ pc' \notin {"failed", "validating"}
        /\ Waiting => pc' \in {pc, "idle", "classifying"}
        /\ pc' = "classifying" =>
              Waiting /\ validateForm(summaryVal, locationVal, dateVal)
        /\ (Waiting /\ ~validateForm(summaryVal, locationVal, dateVal)
                    /\ UNCHANGED formVars) =>
              /\ pc' = "idle" \/ pc' = pc
              /\ classifyCalls' = 0 \/ UNCHANGED localVars
              /\ classifyCalls' = 0 =>
                    /\ classification' = "undefined" /\ analysis' = Undefined
                    /\ mediation' = Undefined /\ questions' = Undefined
              /\ UNCHANGED reportContent
              /\ reportVisible' => reportVisible
        /\ pc = "classifying" => pc' = "analyzing" /\ classifyCalls' = 1
        /\ pc = "analyzing" => pc' = "assembling" /\ analysis' # Undefined
        /\ pc = "assembling" =>
              /\ pc' = "rendered" /\ reportVisible'
              /\ reportContent' = <<reportDataOf(formData, analysis, mediation, questions)>>
      ]_vars

\* C3 witness: a click with a summary of 29 trimmed characters ended Idle, all
\* other fields being valid, and no report has been produced
C3_Witness ==
    /\ pc = "idle"
    /\ Len(trim(summaryVal)) = MinSummaryLen - 1
    /\ invalid = [summary |-> TRUE, location |-> FALSE, dateTime |-> FALSE]
    /\ reportContent = <<>> /\ ~reportVisible

\* the validation contract of the core: summary of at least 30 trimmed
\* characters, location not empty after trimming, dateTime present and parseable
ContractHolds(sv, lv, dv) ==
    /\ Len(trim(sv)) >= MinSummaryLen
    /\ Len(trim(lv)) > 0
    /\ dv # <<>> /\ ParseDate(dv).valid

\* C4: the pipeline runs only on form input that satisfies the validation
\* contract, and validateForm returns true exactly when the contract holds.
C4_PipelineOnlyOnContract ==
    /\ validateForm(summaryVal, locationVal, dateVal)
          <=> ContractHolds(summaryVal, locationVal, dateVal)
    /\ pc \in {"classifying", "analyzing", "assembling"}
          => ContractHolds(summaryVal, locationVal, dateVal)

C6_NoFailureModes ==
    /\ ~threw /\ pc # "failed"
    /\ pc \in {"assembling", "rendered"} =>
          analysis # Undefined /\ mediation # Undefined /\ questions # Undefined
    /\ pc = "rendered" =>
          /\ reportContent[1].analysis # Undefined
          /\ reportContent[1].mediation # Undefined
          /\ reportContent[1].questions # Undefined

\* C6 witness: a report was rendered for a keyword-free summary and a date text
\* that is no date
C6_Witness ==
    /\ pc = "rendered"
    /\ classification = "general"
    /\ ~ParseDate(formData.incident.dateTime).valid
    /\ ~threw

\* a question set without its first open-ended question
WithoutFirst(q) == [q EXCEPT !.openEnded[1] = <<>>]
\* and without the second clarifying question
WithoutPlaces(q) == [q EXCEPT !.openEnded[1] = <<>>, !.clarifying[2] = <<>>]

\* C7 as stated: every question but the first open-ended one is the same text
\* whatever location and dateTime are passed.
C7_OnlyFirstOpenEnded ==
    fnCall.op = "generateQuestions" =>
        \A l \in FnLocations, d \in FnDateTimes :
            WithoutFirst(fnResult) =
                WithoutFirst(generateQuestions(fnCall.classification, fnCall.role, l, d))

\* C7 amended: the formatted dateTime is interpolated into the first
\* open-ended question only, the location into the first open-ended question
\* and the second clarifying question; every other question is the same text
\* whatever location and dateTime are passed.
C7_DateOnceLocationTwice ==
    fnCall.op = "generateQuestions" =>
        /\ \A l \in FnLocations, d \in FnDateTimes :
              WithoutPlaces(fnResult) =
                  WithoutPlaces(generateQuestions(fnCall.classification, fnCall.role, l, d))
        /\ \A d \in FnDateTimes :
              fnResult.clarifying[2] =
                  generateQuestions(fnCall.classification, fnCall.role,
                                    fnCall.location, d).clarifying[2]
        /\ fnResult.openEnded[1][2] = Val(questionLoc(fnCall.location))
        /\ fnResult.openEnded[1][4] = Val(questionDt(fnCall.dateTime))
        /\ fnResult.clarifying[2][2] = Val(questionLoc(fnCall.location))

\* C7 witness: a call with a location and a date, both found in the first
\* open-ended question, the location also in the second clarifying question
C7_Witness ==
    /\ fnCall.op = "generateQuestions"
    /\ ~Falsy(fnCall.location) /\ ~Falsy(fnCall.dateTime)
    /\ ParseDate(fnCall.dateTime.s).valid
    /\ fnResult.openEnded[1][2].val = fnCall.location.s
    /\ fnResult.openEnded[1][4].val # <<>>
    /\ fnResult.clarifying[2][2].val = fnCall.location.s

\* C8: when the dateTime is missing or cannot be parsed, the date portion of
\* the first open-ended question is the empty text.
C8_NoDateIsEmptyText ==
    (/\ fnCall.op = "generateQuestions"
     /\ Falsy(fnCall.dateTime) \/ ~ParseDate(fnCall.dateTime.s).valid)
        => fnResult.openEnded[1][4].val = <<>>

\* C9: a missing location (empty or absent) is replaced by "the location"
\* wherever the location is interpolated; any other location is interpolated
\* verbatim.
C9_LocationPlaceholder ==
    fnCall.op = "generateQuestions" =>
        LET missing == fnCall.location.t = "undefined" \/ fnCall.location.s = <<>>
            shown == IF missing THEN TheLocationText ELSE fnCall.location.s
        IN  /\ fnResult.openEnded[1][2].val = shown
            /\ fnResult.clarifying[2][2].val = shown

\* C9 witness: a call without location whose questions say "the location"
C9_Witness ==
    /\ fnCall.op = "generateQuestions"
    /\ fnCall.location = Undefined
    /\ fnResult.openEnded[1][2].val = TheLocationText
    /\ fnResult.clarifying[2][2].val = TheLocationText

QuestionKinds == {"openEnded", "clarifying", "reflective", "exploratory", "conscience"}

C11_ThreePerKind ==
    fnCall.op = "generateQuestions" =>
        /\ DOMAIN fnResult = QuestionKinds
        /\ \A k \in QuestionKinds : Len(fnResult[k]) = 3

\* a call without location and without dateTime has returned
C11_Witness ==
    /\ fnCall.op = "generateQuestions"
    /\ fnCall.role = "respondent"
    /\ fnCall.location = Undefined
    /\ fnCall.dateTime = Undefined
    /\ Len(fnResult.clarifying) = 3

TookOnly(s) ==
    /\ Contains(toLowerCase(s), <<"t", "o", "o", "k">>)
    /\ ~TestAny(threatKeywords \cup defamationKeywords \cup injuryKeywords, toLowerCase(s))

\* 2024-05-01T20:00 read on a host in Manila, and on a host at UTC
ManilaEvening == <<"5", "/", "1", "/", "2", "0", "2", "4", ",", " ", "8", ":", "0", "0", ":", "0", "0", " ", "P", "M">>
ManilaMorning == <<"5", "/", "2", "/", "2", "0", "2", "4", ",", " ", "4", ":", "0", "0", ":", "0", "0", " ", "A", "M">>

C14_TheftEndToEnd ==
    (pc = "rendered" /\ TookOnly(summaryVal)) =>
        LET report == reportContent[1]
            first == report.questions.complainant.openEnded[1]
            has(seg) == \E i \in 1..Len(first) : first[i] = seg
        IN  /\ report.analysis.nature = "Theft / Qualified Theft"
            /\ \E i \in 1..Len(report.mediation.issues) :
                  report.mediation.issues[i] =
                      "Return of the allegedly stolen property or restitution of its value"
            /\ has(Val(<<"P", "u", "r", "o", "k", " ", "3">>))
            /\ has(Val(IF hostZone = ManilaUtcOffset THEN ManilaEvening ELSE ManilaMorning))

\* the report of the theft form is rendered
C14_Witness ==
    /\ pc = "rendered"
    /\ summaryVal = TheftSummary
    /\ reportContent[1].analysis.nature = "Theft / Qualified Theft"
    /\ reportContent[1].incident.location = <<"P", "u", "r", "o", "k", " ", "3">>

(***************************************************************************)
(* C15: after every validateForm call each of the three fields carries the *)
(* invalid mark exactly when its own check failed on this call, whatever   *)
(* the other fields and the marks of earlier calls are; the failure is     *)
(* told by the return value (generateReport returns) and nothing is        *)
(* thrown.                                                                 *)
(***************************************************************************)
C15_MarksPerField ==
    [][ GenerateClick =>
          /\ invalid'.summary <=> (summaryVal = <<>> \/ Len(trim(summaryVal)) < 30)
          /\ invalid'.location <=> (trim(locationVal) = <<>>)
          /\ invalid'.dateTime <=> (dateVal = <<>>)
          /\ threw' = FALSE
          /\ (pc' = "idle") <=>
                (invalid'.summary \/ invalid'.location \/ invalid'.dateTime) ]_vars

\* a call has marked the summary and the dateTime and left the location,
\* checked after the failing summary, unmarked
C15_Witness ==
    /\ pc = "idle"
    /\ ~threw
    /\ invalid = [summary |-> TRUE, location |-> FALSE, dateTime |-> TRUE]
    /\ locationVal # <<>>
    /\ dateVal = <<>>

(***************************************************************************)
(* C17: the respondents of a report are exactly the respondent entries of  *)
(* the form that have a field with something other than white space in it, *)
(* trimmed, in form order; an entry of empty or whitespace-only fields is  *)
(* left out, so the sequence may be empty.                                 *)
(***************************************************************************)
HasText(s) == \E j \in 1..Len(s) : s[j] \notin WhiteSpace

\* the positions of the form's entries that have text in some field
KeptEntries ==
    { i \in 1..Len(respondentEls) : \E f \in PartyFields : HasText(respondentEls[i][f]) }

\* the k-th of them, in form order
KeptEntry(k) ==
    CHOOSE i \in KeptEntries : Cardinality({j \in KeptEntries : j < i}) = k - 1

C17_FilledRespondentsInOrder ==
    reportContent # <<>> =>
        LET respondents == reportContent[1].respondents
        IN  /\ Len(respondents) = Cardinality(KeptEntries)
            /\ \A k \in 1..Len(respondents) :
                  /\ DOMAIN respondents[k] = PartyFields
                  /\ \A f \in PartyFields :
                        respondents[k][f] = trim(respondentEls[KeptEntry(k)][f])

\* a report of a form whose first entry is whitespace only and whose second
\* has a name: the report has the second alone
C17_Witness ==
    /\ pc = "rendered"
    /\ Len(respondentEls) = 2
    /\ respondentEls[1].name = <<" ">>
    /\ respondentEls[2].name = <<" ", "B", "e", "n", " ">>
    /\ Len(reportContent[1].respondents) = 1
    /\ reportContent[1].respondents[1].name = <<"B", "e", "n">>

(***************************************************************************)
(* C18: the caseTitle of a report is the trimmed complainant name followed *)
(* by " Case" when that name is not empty, and "Complainant Case"          *)
(* otherwise, a whitespace-only name included, whatever the other fields   *)
(* of the form are.                                                        *)
(***************************************************************************)
C18_CaseTitle ==
    reportContent # <<>> =>
        reportContent[1].caseTitle =
            IF HasText(complainantVal.name)
            THEN << Val(trim(complainantVal.name)), Lit(" Case") >>
            ELSE << Lit("Complainant Case") >>

\* a report for a complainant with a phone number and a whitespace-only name
C18_Witness ==
    /\ pc = "rendered"
    /\ complainantVal.name = <<" ">>
    /\ complainantVal.phone # <<>>
    /\ reportContent[1].complainant.phone # <<>>
    /\ reportContent[1].caseTitle = << Lit("Complainant Case") >>

(***************************************************************************)
(* C19: after any sequence of add-respondent, remove-respondent (through a *)
(* displayed Remove button) and clear-form actions the respondent list has *)
(* at least one entry, its n entries show the indices 1..n in order and    *)
(* the Remove button of every entry is displayed exactly when n > 1;       *)
(* clear-form leaves one blank entry with index 1 and a hidden button.     *)
(***************************************************************************)
ListShape ==
    /\ Len(respondentEls) >= 1
    /\ \A i \in 1..Len(respondentEls) :
          /\ respondentEls[i].index = i
          /\ respondentEls[i].removeShown <=> (Len(respondentEls) > 1)

OneBlankEntry ==
    /\ Len(respondentEls) = 1
    /\ \A f \in PartyFields : respondentEls[1][f] = <<>>
    /\ respondentEls[1].index = 1
    /\ ~respondentEls[1].removeShown

C19_ListShape ==
    [][ /\ ListShape'
        /\ ClearForm => OneBlankEntry' ]_vars

\* a list of two entries, both with a displayed Remove button, after entries
\* were added and the first one was filled in
C19_Witness ==
    /\ Len(respondentEls) = 2
    /\ respondentEls[1].name = <<"B", "e", "n">>
    /\ respondentEls[2].name = <<>>
    /\ respondentEls[2].index = 2
    /\ respondentEls[1].removeShown /\ respondentEls[2].removeShown

(***************************************************************************)
(* C20: a generateReport call whose validation fails leaves the rendered   *)
(* report and the visibility of the report section as they are; the        *)
(* content is replaced only by a generation that passed validation and     *)
(* rendered, the section is hidden only by clear-form, and in every state  *)
(* the section is visible exactly when a generation has succeeded since    *)
(* the last clear-form.                                                    *)
(***************************************************************************)
C20_ReportKeptOnFailure ==
    /\ [](reportVisible <=> generatedSinceClear)
    /\ [][ /\ (GenerateClick /\ (invalid'.summary \/ invalid'.location \/ invalid'.dateTime)) =>
                  /\ reportContent' = reportContent
                  /\ reportVisible' = reportVisible
           /\ reportContent' # reportContent =>
                  (pc = "assembling" /\ pc' = "rendered" /\ reportVisible')
           /\ (reportVisible /\ ~reportVisible') => ClearForm ]_vars

\* a click on a form that fails validation has returned while the report of
\* an earlier generation is displayed
C20_Witness ==
    /\ pc = "idle"
    /\ invalid.summary
    /\ summaryFails(summaryVal)
    /\ reportVisible
    /\ reportContent # <<>>
    /\ ~summaryFails(reportContent[1].incident.summary)

(***************************************************************************)
(* C16: a failure of a search is shown as a message and is never fatal.    *)
(* With the API key or the search-engine id missing legalSearch fails      *)
(* before any request is issued; with a non-success response it fails      *)
(* after its request was issued; either way runLegalSearchUI catches the   *)
(* failure, puts the error message in the place of 'Searching...' in the   *)
(* results panel and lets no error out, and a later search can be started. *)
(***************************************************************************)
MissingCredential == LEGAL_SEARCH.GOOGLE_API_KEY = "" \/ LEGAL_SEARCH.GOOGLE_CSE_ID = ""

AllCompleted == searches # <<>> /\ \A i \in 1..Len(searches) : searches[i].pc = "done"

C21_LatestSearchShown ==
    /\ (Len(searches) = 2 /\ AllCompleted /\ 1 \in searches[2].overlaps) =>
            resultsText = searches[2].outcome
    /\ AllCompleted => resultsText # SearchingText

\* the second part alone: no 'Searching...' is left behind
C21_NoSearchingLeft == AllCompleted => resultsText.text # <<"Searching...">>

\* two overlapping searches have both completed, the first one last
C21_Overtaken ==
    /\ Len(searches) = 2 /\ AllCompleted
    /\ 1 \in searches[2].overlaps
    /\ searches[2].outcome = ErrorText(<< "Search request failed: ", "403" >>)
    /\ searches[1].outcome.cards # <<>>
    /\ resultsText = searches[1].outcome

====
